---- MODULE Spec2Model ----
(***************************************************************************)
(* Model of top-english-words, src/functions.rs: the six read-only queries *)
(* over the static word list WORD_LIST (get_words, get_words_a,            *)
(* get_words_range, get_words_range_a, get_word, is_top_word).             *)
(*                                                                         *)
(* A word (&'static str / String) is the sequence of its bytes, so that    *)
(* equality is exact byte equality and Ord is the lexicographic byte order *)
(* of Rust's str.  A usize is a natural number below 2^UsizeBits.          *)
(* Option<T> is a record: None, or Some(v) with the field val.  A value a   *)
(* query returned is kept in the slot of its Rust type (vec, opt_vec,      *)
(* opt_word, opt_index), the other slots empty.                            *)
(* A RangeBounds<usize> value is the pair of its start_bound() and         *)
(* end_bound(), each Included(i), Excluded(i) or Unbounded.                *)
(***************************************************************************)
EXTENDS Integers, Sequences, FiniteSets, TLC

VARIABLES
    catalog,     \* history: the word list as it was built at startup
    WORD_LIST,   \* the static catalog, rank order, index 0 in Rust = index 1 here
    call,        \* the last sequential query: its function and arguments
    ret,         \* what that query returned, in the slot of its type
    wrapped,     \* whether an arithmetic step of that query left 0..USIZE_MAX
    pc,          \* per thread: the position inside the query it is running
    tcall,       \* per thread: the query it is running
    frame,       \* per thread: the locals of the running query
    tret         \* per thread: the value the finished query returned

vars == <<catalog, WORD_LIST, call, ret, wrapped, pc, tcall, frame, tret>>
seqVars == <<call, ret, wrapped>>
thrVars == <<pc, tcall, frame, tret>>

----------------------------------------------------------------------------
(* Bounds of the model. *)

\* longest catalog explored
MaxN == 3
\* width of usize in the model (64 on the usual targets)
UsizeBits == 3

USIZE_MAX == 2 ^ UsizeBits - 1
Usize == 0 .. USIZE_MAX

\* bytes: 65 = 'A', 97 = 'a', 98 = 'b'
Vocabulary == { <<97>>, <<65>>, <<97, 98>>, <<98>> }

\* words asked of is_top_word: the vocabulary, the empty string, "B", "a "
Queries == Vocabulary \cup { <<>>, <<66>>, <<97, 32>> }

\* argument values: the full range of usize
InputVals == Usize

----------------------------------------------------------------------------
(* Option and Bound values. *)

None == [some |-> FALSE]
Some(v) == [some |-> TRUE, val |-> v]

Included(i) == [kind |-> "Included", val |-> i]
Excluded(i) == [kind |-> "Excluded", val |-> i]
Unbounded == [kind |-> "Unbounded", val |-> 0]

Bounds == { Included(i) : i \in InputVals } \cup { Excluded(i) : i \in InputVals }
            \cup { Unbounded }
Ranges == [start : Bounds, end : Bounds]

----------------------------------------------------------------------------
(* The catalog: N unique words, N >= 1, N = NUM_WORDS. *)

Catalogs ==
    UNION { { s \in [1 .. n -> Vocabulary] : \A i, j \in 1 .. n : s[i] = s[j] => i = j }
            : n \in 1 .. MaxN }

NUM_WORDS == Len(WORD_LIST)

----------------------------------------------------------------------------
(* Library behaviour the code relies on. *)

\* T::from(&'static str) for T = String: a copy of the bytes
From(word) == [i \in 1 .. Len(word) |-> word[i]]

\* Ord for str: lexicographic comparison of the bytes, a prefix first
RECURSIVE StrLe(_, _)
StrLe(a, b) ==
    IF a = <<>> THEN TRUE
    ELSE IF b = <<>> THEN FALSE
    ELSE IF Head(a) < Head(b) THEN TRUE
    ELSE IF Head(a) > Head(b) THEN FALSE
    ELSE StrLe(Tail(a), Tail(b))

\* place w before the first element that is greater than it
RECURSIVE Insert(_, _)
Insert(w, s) ==
    IF s = <<>> THEN <<w>>
    ELSE IF StrLe(Head(s), w) THEN <<Head(s)>> \o Insert(w, Tail(s))
    ELSE <<w>> \o s

\* Vec::sort: a stable sort by Ord
RECURSIVE Sort(_)
Sort(s) == IF s = <<>> THEN <<>> ELSE Insert(Head(s), Sort(Tail(s)))

Min(a, b) == IF a < b THEN a ELSE b

\* Iterator::take(n) and Iterator::skip(n) over a sequence
Take(s, n) == SubSeq(s, 1, Min(n, Len(s)))
Skip(s, n) == SubSeq(s, Min(n, Len(s)) + 1, Len(s))

\* usize arithmetic as a release build computes it
Wrap(x) == x % (2 ^ UsizeBits)

\* <[&str]>::eq_ignore_ascii_case: bytes 'A'..'Z' fold onto 'a'..'z'
Fold(w) == [i \in 1 .. Len(w) |-> IF w[i] \in 65 .. 90 THEN w[i] + 32 ELSE w[i]]

----------------------------------------------------------------------------
(* src/functions.rs, the functions as the code computes them. *)

\* for word in iter { words.push(T::from(word)) }
RECURSIVE Collect(_)
Collect(iter) ==
    IF iter = <<>> THEN <<>> ELSE <<From(Head(iter))>> \o Collect(Tail(iter))

get_words_short == Collect(Take(WORD_LIST, NUM_WORDS - 1))

get_words == Collect(WORD_LIST)

get_words_a_unsorted == get_words

get_words_a == Sort(get_words)

\* let start_index = match range.start_bound() { ... }
start_index(range) ==
    CASE range.start.kind = "Included" -> range.start.val
      [] range.start.kind = "Excluded" -> 0
      [] range.start.kind = "Unbounded" -> 0

\* the same match with the decrement taken whatever i is
end_index_unchecked(range) ==
    CASE range.end.kind = "Included" ->
            [early |-> FALSE, val |-> range.end.val, exact |-> {}]
      [] range.end.kind = "Excluded" ->
            [early |-> FALSE, val |-> Wrap(range.end.val - 1),
             exact |-> {range.end.val - 1}]
      [] range.end.kind = "Unbounded" ->
            [early |-> FALSE, val |-> Wrap(NUM_WORDS - 1), exact |-> {NUM_WORDS - 1}]

\* let end_index = match range.end_bound() { ... }: early is the return None
\* of the Excluded(0) arm, exact the unbounded values of the subtractions made
end_index(range) ==
    CASE range.end.kind = "Included" ->
            [early |-> FALSE, val |-> range.end.val, exact |-> {}]
      [] range.end.kind = "Excluded" ->
            IF range.end.val > 0
            THEN [early |-> FALSE, val |-> Wrap(range.end.val - 1),
                  exact |-> {range.end.val - 1}]
            ELSE [early |-> TRUE, val |-> 0, exact |-> {}]
      [] range.end.kind = "Unbounded" ->
            [early |-> FALSE, val |-> Wrap(NUM_WORDS - 1), exact |-> {NUM_WORDS - 1}]

is_invalid_clamping(s, e) == s > e

is_invalid_allow_empty(s, e) == s > e + 1 \/ e >= NUM_WORDS

\* if start_index > end_index || end_index >= NUM_WORDS { return None; }
is_invalid(s, e) == s > e \/ e >= NUM_WORDS

selected_exclusive_end(s, e) == Skip(Take(WORD_LIST, e), s)

\* WORD_LIST.iter().take(end_index + 1).skip(start_index)
selected(s, e) == Skip(Take(WORD_LIST, Wrap(e + 1)), s)

\* the body of get_words_range: the value returned and the unbounded results
\* of every usize operation it evaluated on the way
range_eval(range) ==
    LET s == start_index(range)
        e == end_index(range)
    IN  IF e.early THEN [ret |-> None, exact |-> e.exact]
        ELSE IF is_invalid(s, e.val) THEN [ret |-> None, exact |-> e.exact]
        ELSE [ret |-> Some(Collect(selected(s, e.val))),
              exact |-> e.exact \cup {e.val - s, e.val - s + 1, e.val + 1}]

get_words_range(range) == range_eval(range).ret

get_words_range_wrapped(range) == \E x \in range_eval(range).exact : x \notin Usize

get_words_range_a_unsorted(range) == get_words_range(range)

\* let mut words = get_words_range::<T>(range)?; words.sort(); Some(words)
get_words_range_a(range) ==
    LET words == get_words_range(range)
    IN  IF words.some THEN Some(Sort(words.val)) ELSE None

get_word_clamped(position) == Some(From(WORD_LIST[Min(position, NUM_WORDS - 1) + 1]))

\* Some(T::from(WORD_LIST.get(position)?))
get_word(position) ==
    IF position < Len(WORD_LIST) THEN Some(From(WORD_LIST[position + 1])) ELSE None

\* Iterator::position: the index of the first element the predicate accepts
RECURSIVE Position(_, _, _)
Position(iter, word, i) ==
    IF iter = <<>> THEN None
    ELSE IF Head(iter) = word THEN Some(i)
    ELSE Position(Tail(iter), word, i + 1)

RECURSIVE PositionIgnoreCase(_, _, _)
PositionIgnoreCase(iter, word, i) ==
    IF iter = <<>> THEN None
    ELSE IF Fold(Head(iter)) = Fold(word) THEN Some(i)
    ELSE PositionIgnoreCase(Tail(iter), word, i + 1)

is_top_word_ignore_case(word) == PositionIgnoreCase(WORD_LIST, word, 0)

\* WORD_LIST.iter().position(|w| *w == word)
is_top_word(word) == Position(WORD_LIST, word, 0)

----------------------------------------------------------------------------
(* The sequential specification: one query after another on one caller. *)

Idle == [t \in {} |-> 0]

\* a returned value, held in the slot of its Rust type: Vec<T>,
\* Option<Vec<T>>, Option<T> or Option<usize>
NoRet == [vec |-> <<>>, opt_vec |-> None, opt_word |-> None, opt_index |-> None]
RetVec(v) == [NoRet EXCEPT !.vec = v]
RetOptVec(o) == [NoRet EXCEPT !.opt_vec = o]
RetOptWord(o) == [NoRet EXCEPT !.opt_word = o]
RetOptIndex(o) == [NoRet EXCEPT !.opt_index = o]

Init ==
    /\ WORD_LIST \in Catalogs
    /\ catalog = WORD_LIST
    /\ call = [fn |-> "none"]
    /\ ret = NoRet
    /\ wrapped = FALSE
    /\ pc = Idle
    /\ tcall = Idle
    /\ frame = Idle
    /\ tret = Idle

GetWords ==
    /\ call.fn = "none"
    /\ call' = [fn |-> "get_words"]
    /\ ret' = RetVec(get_words)
    /\ wrapped' = FALSE
    /\ UNCHANGED <<catalog, WORD_LIST, thrVars>>

GetWordsA ==
    /\ call.fn = "none"
    /\ call' = [fn |-> "get_words_a"]
    /\ ret' = RetVec(get_words_a)
    /\ wrapped' = FALSE
    /\ UNCHANGED <<catalog, WORD_LIST, thrVars>>

GetWordsRange(range) ==
    /\ call.fn = "none"
    /\ call' = [fn |-> "get_words_range", range |-> range]
    /\ ret' = RetOptVec(get_words_range(range))
    /\ wrapped' = get_words_range_wrapped(range)
    /\ UNCHANGED <<catalog, WORD_LIST, thrVars>>

GetWordsRangeA(range) ==
    /\ call.fn = "none"
    /\ call' = [fn |-> "get_words_range_a", range |-> range]
    /\ ret' = RetOptVec(get_words_range_a(range))
    /\ wrapped' = get_words_range_wrapped(range)
    /\ UNCHANGED <<catalog, WORD_LIST, thrVars>>

GetWord(position) ==
    /\ call.fn = "none"
    /\ call' = [fn |-> "get_word", position |-> position]
    /\ ret' = RetOptWord(get_word(position))
    /\ wrapped' = FALSE
    /\ UNCHANGED <<catalog, WORD_LIST, thrVars>>

IsTopWord(word) ==
    /\ call.fn = "none"
    /\ call' = [fn |-> "is_top_word", word |-> word]
    /\ ret' = RetOptIndex(is_top_word(word))
    /\ wrapped' = FALSE
    /\ UNCHANGED <<catalog, WORD_LIST, thrVars>>

\* the caller drops the returned value before its next query
Drop ==
    /\ call.fn # "none"
    /\ call' = [fn |-> "none"]
    /\ ret' = NoRet
    /\ wrapped' = FALSE
    /\ UNCHANGED <<catalog, WORD_LIST, thrVars>>

Next ==
    \/ GetWords
    \/ GetWordsA
    \/ \E range \in Ranges : GetWordsRange(range)
    \/ \E range \in Ranges : GetWordsRangeA(range)
    \/ \E position \in InputVals : GetWord(position)
    \/ \E word \in Queries : IsTopWord(word)
    \/ Drop

Spec == Init /\ [][Next]_vars

----------------------------------------------------------------------------
(* The concurrent specification: callers on separate threads, each running *)
(* one query at a time, a step of a loop being one read of WORD_LIST.      *)

Threads == {"t1", "t2"}

\* ranges the threads ask for: each bound kind at either end
ThreadBounds == { Unbounded, Included(1), Excluded(MaxN - 1) }
ThreadRanges == [start : ThreadBounds, end : ThreadBounds]

NoCall == [fn |-> "none"]
NoFrame == [i |-> 0, end |-> 0, words |-> <<>>]

InitThreads ==
    /\ WORD_LIST \in Catalogs
    /\ catalog = WORD_LIST
    /\ call = NoCall
    /\ ret = NoRet
    /\ wrapped = FALSE
    /\ pc = [t \in Threads |-> "idle"]
    /\ tcall = [t \in Threads |-> NoCall]
    /\ frame = [t \in Threads |-> NoFrame]
    /\ tret = [t \in Threads |-> NoRet]

\* the value a query hands back: a Vec for get_words and get_words_a,
\* Some(Vec) for the range queries
Returned(fn, words) ==
    IF fn \in {"get_words", "get_words_a"} THEN RetVec(words) ELSE RetOptVec(Some(words))

\* get_words and get_words_a up to the for loop over WORD_LIST
ThreadGetWords(t) ==
    \E fn \in {"get_words", "get_words_a"} :
        /\ pc[t] = "idle"
        /\ tcall' = [tcall EXCEPT ![t] = [fn |-> fn]]
        /\ frame' = [frame EXCEPT ![t] = [i |-> 0, end |-> NUM_WORDS, words |-> <<>>]]
        /\ pc' = [pc EXCEPT ![t] = "collect"]
        /\ UNCHANGED <<catalog, WORD_LIST, seqVars, tret>>

\* get_words_range and get_words_range_a up to the for loop: the two
\* matches, the validity check, the iterator take(end_index + 1).skip(start_index)
ThreadGetWordsRange(t) ==
    \E fn \in {"get_words_range", "get_words_range_a"}, range \in ThreadRanges :
        LET s == start_index(range)
            e == end_index(range)
        IN  /\ pc[t] = "idle"
            /\ tcall' = [tcall EXCEPT ![t] = [fn |-> fn, range |-> range]]
            /\ IF e.early \/ is_invalid(s, e.val)
               THEN /\ pc' = [pc EXCEPT ![t] = "done"]
                    /\ tret' = [tret EXCEPT ![t] = RetOptVec(None)]
                    /\ UNCHANGED frame
               ELSE /\ pc' = [pc EXCEPT ![t] = "collect"]
                    /\ frame' = [frame EXCEPT ![t] =
                                    [i |-> s, end |-> Wrap(e.val + 1), words |-> <<>>]]
                    /\ UNCHANGED tret
            /\ UNCHANGED <<catalog, WORD_LIST, seqVars>>

\* one iteration of a for loop: words.push(T::from(word))
ThreadCollectStep(t) ==
    /\ pc[t] = "collect"
    /\ frame[t].i < frame[t].end
    /\ frame[t].i < Len(WORD_LIST)
    /\ frame' = [frame EXCEPT ![t].i = @ + 1,
                              ![t].words = Append(@, From(WORD_LIST[frame[t].i + 1]))]
    /\ UNCHANGED <<catalog, WORD_LIST, seqVars, pc, tcall, tret>>

\* the iterator is exhausted: return the vector, or go on to sort it
ThreadCollectEnd(t) ==
    /\ pc[t] = "collect"
    /\ ~(frame[t].i < frame[t].end /\ frame[t].i < Len(WORD_LIST))
    /\ IF tcall[t].fn \in {"get_words_a", "get_words_range_a"}
       THEN /\ pc' = [pc EXCEPT ![t] = "sort"]
            /\ UNCHANGED tret
       ELSE /\ pc' = [pc EXCEPT ![t] = "done"]
            /\ tret' = [tret EXCEPT ![t] = Returned(tcall[t].fn, frame[t].words)]
    /\ UNCHANGED <<catalog, WORD_LIST, seqVars, tcall, frame>>

\* a sort that works on the shared list instead of the caller's vector
ThreadSortInPlace(t) ==
    /\ pc[t] = "sort"
    /\ WORD_LIST' = Sort(WORD_LIST)
    /\ pc' = [pc EXCEPT ![t] = "done"]
    /\ tret' = [tret EXCEPT ![t] = Returned(tcall[t].fn, Sort(frame[t].words))]
    /\ UNCHANGED <<catalog, seqVars, tcall, frame>>

\* words.sort() on the caller's own vector, then the return
ThreadSort(t) ==
    /\ pc[t] = "sort"
    /\ frame' = [frame EXCEPT ![t].words = Sort(@)]
    /\ pc' = [pc EXCEPT ![t] = "done"]
    /\ tret' = [tret EXCEPT ![t] = Returned(tcall[t].fn, Sort(frame[t].words))]
    /\ UNCHANGED <<catalog, WORD_LIST, seqVars, tcall>>

\* get_word: a single bounds-checked read
ThreadGetWord(t) ==
    \E position \in 0 .. MaxN :
        /\ pc[t] = "idle"
        /\ tcall' = [tcall EXCEPT ![t] = [fn |-> "get_word", position |-> position]]
        /\ tret' = [tret EXCEPT ![t] = RetOptWord(get_word(position))]
        /\ pc' = [pc EXCEPT ![t] = "done"]
        /\ UNCHANGED <<catalog, WORD_LIST, seqVars, frame>>

\* is_top_word up to the scan of position()
ThreadIsTopWord(t) ==
    \E word \in Vocabulary :
        /\ pc[t] = "idle"
        /\ tcall' = [tcall EXCEPT ![t] = [fn |-> "is_top_word", word |-> word]]
        /\ frame' = [frame EXCEPT ![t] = NoFrame]
        /\ pc' = [pc EXCEPT ![t] = "scan"]
        /\ UNCHANGED <<catalog, WORD_LIST, seqVars, tret>>

\* one step of position(): the end of the list, a match, or the next element
ThreadScanStep(t) ==
    /\ pc[t] = "scan"
    /\ IF frame[t].i >= Len(WORD_LIST)
       THEN /\ pc' = [pc EXCEPT ![t] = "done"]
            /\ tret' = [tret EXCEPT ![t] = RetOptIndex(None)]
            /\ UNCHANGED frame
       ELSE IF WORD_LIST[frame[t].i + 1] = tcall[t].word
       THEN /\ pc' = [pc EXCEPT ![t] = "done"]
            /\ tret' = [tret EXCEPT ![t] = RetOptIndex(Some(frame[t].i))]
            /\ UNCHANGED frame
       ELSE /\ frame' = [frame EXCEPT ![t].i = @ + 1]
            /\ UNCHANGED <<pc, tret>>
    /\ UNCHANGED <<catalog, WORD_LIST, seqVars, tcall>>

\* the caller takes the result and drops it
ThreadReturn(t) ==
    /\ pc[t] = "done"
    /\ pc' = [pc EXCEPT ![t] = "idle"]
    /\ tcall' = [tcall EXCEPT ![t] = NoCall]
    /\ frame' = [frame EXCEPT ![t] = NoFrame]
    /\ tret' = [tret EXCEPT ![t] = NoRet]
    /\ UNCHANGED <<catalog, WORD_LIST, seqVars>>

NextThreads ==
    \E t \in Threads :
        \/ ThreadGetWords(t)
        \/ ThreadGetWordsRange(t)
        \/ ThreadCollectStep(t)
        \/ ThreadCollectEnd(t)
        \/ ThreadSort(t)
        \/ ThreadGetWord(t)
        \/ ThreadIsTopWord(t)
        \/ ThreadScanStep(t)
        \/ ThreadReturn(t)

SpecThreads == InitThreads /\ [][NextThreads]_vars

----------------------------------------------------------------------------
(* Vocabulary of the properties, stated without the operators above. *)

N == Len(WORD_LIST)

RangeFns == {"get_words_range", "get_words_range_a"}

\* a <= b in lexicographic byte order: a is a prefix of b, or a has the
\* smaller byte at the first position where they differ
LexLeq(a, b) ==
    \/ /\ Len(a) <= Len(b)
       /\ \A k \in 1 .. Len(a) : a[k] = b[k]
    \/ \E k \in 1 .. Min(Len(a), Len(b)) :
          /\ a[k] < b[k]
          /\ \A j \in 1 .. k - 1 : a[j] = b[j]

IsSorted(s) == \A i, j \in 1 .. Len(s) : i < j => LexLeq(s[i], s[j])

Count(s, w) == Cardinality({ i \in 1 .. Len(s) : s[i] = w })

IsPermutation(a, b) ==
    /\ Len(a) = Len(b)
    /\ \A i \in 1 .. Len(a) : Count(a, a[i]) = Count(b, a[i])

\* the resolved start index: the value of an inclusive start, 0 otherwise
StartRank(b) == IF b.kind = "Included" THEN b.val ELSE 0

\* the last rank an end bound admits; -1 when it admits none (Excluded(0))
EndRank(b) ==
    CASE b.kind = "Included" -> b.val
      [] b.kind = "Excluded" -> b.val - 1
      [] b.kind = "Unbounded" -> N - 1

\* standard bound semantics of std::ops::RangeBounds::contains
Contains(range, r) ==
    /\ CASE range.start.kind = "Included" -> range.start.val <= r
         [] range.start.kind = "Excluded" -> range.start.val < r
         [] range.start.kind = "Unbounded" -> TRUE
    /\ CASE range.end.kind = "Included" -> r <= range.end.val
         [] range.end.kind = "Excluded" -> r < range.end.val
         [] range.end.kind = "Unbounded" -> TRUE

\* the words at ranks lo..hi of the catalog
IsRanks(s, lo, hi) ==
    /\ Len(s) = hi - lo + 1
    /\ \A i \in 0 .. hi - lo : s[i + 1] = get_words[lo + i + 1]

----------------------------------------------------------------------------
(* The claims on single queries, checked under Spec. *)

\* C1: with an inclusive or unbounded start lo and an end that resolves to
\* hi, 0 <= lo <= hi < N, get_words_range returns exactly the hi - lo + 1
\* words get_words()[lo], ..., get_words()[hi], in that order.
C1_RangeReturnsRanks ==
    (/\ call.fn = "get_words_range"
     /\ call.range.start.kind \in {"Included", "Unbounded"}
     /\ StartRank(call.range.start) <= EndRank(call.range.end)
     /\ EndRank(call.range.end) < N)
    => /\ ret.opt_vec.some
       /\ IsRanks(ret.opt_vec.val, StartRank(call.range.start), EndRank(call.range.end))

C1_Witness ==
    /\ call.fn = "get_words_range"
    /\ call.range.start = Included(1)
    /\ call.range.end = Excluded(3)
    /\ N >= 3
    /\ ret.opt_vec = Some(<<WORD_LIST[2], WORD_LIST[3]>>)

C3_StandardBoundSemantics ==
    (call.fn = "get_words_range" /\ ret.opt_vec.some) =>
        LET ranks == { r \in 0 .. N - 1 : Contains(call.range, r) }
        IN  /\ Len(ret.opt_vec.val) = Cardinality(ranks)
            /\ \A r \in ranks :
                  ret.opt_vec.val[Cardinality({ q \in ranks : q < r }) + 1] = WORD_LIST[r + 1]

\* C4: get_words_range_a(r) is None exactly when get_words_range(r) is, and
\* otherwise a sorted permutation of get_words_range(r)'s result.
C4_AlphabeticalRange ==
    call.fn = "get_words_range_a" =>
        LET plain == get_words_range(call.range)
        IN  /\ ret.opt_vec.some <=> plain.some
            /\ ret.opt_vec.some => /\ IsSorted(ret.opt_vec.val)
                           /\ IsPermutation(ret.opt_vec.val, plain.val)

C4_Witness ==
    /\ call.fn = "get_words_range_a"
    /\ ret.opt_vec.some
    /\ Len(ret.opt_vec.val) >= 2
    /\ ret.opt_vec.val # get_words_range(call.range).val

\* C5: get_words returns the N catalog words in rank order, and get_words_a
\* returns N words, sorted ascending, the same multiset as get_words.
C5_AllWords ==
    /\ call.fn = "get_words" =>
          /\ Len(ret.vec) = N
          /\ \A i \in 1 .. N : ret.vec[i] = WORD_LIST[i]
    /\ call.fn = "get_words_a" =>
          /\ Len(ret.vec) = N
          /\ IsSorted(ret.vec)
          /\ IsPermutation(ret.vec, get_words)

C5_Witness ==
    /\ call.fn = "get_words_a"
    /\ N = MaxN
    /\ ret.vec # WORD_LIST

\* C6: get_word(r) is Some(get_words()[r]) for r < N and None for r >= N.
C6_GetWord ==
    call.fn = "get_word" =>
        IF call.position < N
        THEN ret.opt_word = Some(get_words[call.position + 1])
        ELSE ret.opt_word = None

C6_Witness ==
    /\ call.fn = "get_word"
    /\ call.position = N
    /\ ret.opt_word = None

\* C7: is_top_word(w) is Some(r) exactly for the rank r with
\* get_words()[r] = w under exact byte equality, None when no entry equals
\* w; is_top_word(get_word(r)) = Some(r) for r < N, and
\* get_word(is_top_word(w)) = Some(w) for every catalog word w.
C7_IsTopWord ==
    /\ call.fn = "is_top_word" =>
          /\ \A r \in 0 .. N - 1 :
                ret.opt_index = Some(r) <=> get_words[r + 1] = call.word
          /\ (\A r \in 0 .. N - 1 : get_words[r + 1] # call.word) => ret.opt_index = None
    /\ \A r \in 0 .. N - 1 : is_top_word(get_word(r).val) = Some(r)
    /\ \A r \in 0 .. N - 1 :
          get_word(is_top_word(WORD_LIST[r + 1]).val) = Some(WORD_LIST[r + 1])

C7_Witness ==
    /\ call.fn = "is_top_word"
    /\ call.word = <<65>>
    /\ N >= 2
    /\ WORD_LIST[1] = <<97>>
    /\ WORD_LIST[2] = <<65>>
    /\ ret.opt_index = Some(1)

\* C9: a result of get_words_range or get_words_range_a is never empty: an
\* exclusive end of 0 gives None whatever the start, and a request whose
\* resolved end is below its start (lo..lo) gives None.
C9_NeverEmpty ==
    call.fn \in RangeFns =>
        /\ ret.opt_vec.some => Len(ret.opt_vec.val) >= 1
        /\ call.range.end = Excluded(0) => ret.opt_vec = None
        /\ EndRank(call.range.end) < StartRank(call.range.start) => ret.opt_vec = None

C9_Witness ==
    /\ call.fn = "get_words_range"
    /\ call.range.start = Included(1)
    /\ call.range.end = Excluded(1)
    /\ N >= 2
    /\ ret.opt_vec = None

\* C10: no usize operation of get_words_range leaves 0 .. 2^w - 1, whatever
\* the bound values, and an end bound of 2^w - 1 gives None.
C10_NoWrap ==
    call.fn \in RangeFns =>
        /\ ~wrapped
        /\ call.range.end.val = USIZE_MAX => ret.opt_vec = None

C10_Witness ==
    /\ call.fn = "get_words_range"
    /\ call.range.start = Included(USIZE_MAX)
    /\ call.range.end = Excluded(USIZE_MAX)
    /\ ~wrapped
    /\ ret.opt_vec = None

----------------------------------------------------------------------------
(* The claim on concurrent queries, checked under SpecThreads. *)

\* what a query returns when it runs alone, from start to end in one piece
Alone(c) ==
    CASE c.fn = "get_words" -> RetVec(get_words)
      [] c.fn = "get_words_a" -> RetVec(get_words_a)
      [] c.fn = "get_words_range" -> RetOptVec(get_words_range(c.range))
      [] c.fn = "get_words_range_a" -> RetOptVec(get_words_range_a(c.range))
      [] c.fn = "get_word" -> RetOptWord(get_word(c.position))
      [] c.fn = "is_top_word" -> RetOptIndex(is_top_word(c.word))

\* C8: whatever the interleaving of the threads' queries, the catalog stays
\* the one built at startup, and every finished query holds the result the
\* same query with the same arguments gives when run alone, so that two
\* finished queries with the same arguments hold the same result.
C8_ConcurrentQueries ==
    /\ WORD_LIST = catalog
    /\ \A t \in Threads :
        pc[t] = "done" =>
            /\ tret[t] = Alone(tcall[t])
            /\ \A u \in Threads :
                  (pc[u] = "done" /\ tcall[u] = tcall[t]) => tret[u] = tret[t]

C8_Witness ==
    /\ pc["t1"] = "done"
    /\ tcall["t1"].fn = "get_words_range_a"
    /\ tret["t1"].opt_vec.some
    /\ Len(tret["t1"].opt_vec.val) >= 2
    /\ pc["t2"] = "sort"
    /\ tcall["t2"].fn = "get_words_a"
    /\ frame["t2"].words # tret["t1"].opt_vec.val

====
